---- MODULE Spec2Model ----
(***************************************************************************)
(* A model of DataAnalyzer.py: the interactive pipeline of main()          *)
(* (load, row count, dropna, remove_outliers, drop_duplicates,             *)
(* clean_strings, optional_operations, calculate_stats, visualize).        *)
(*                                                                         *)
(* Representation.                                                         *)
(*  - A Python str is the sequence of the Unicode code points of its        *)
(*    characters; the text of a constant follows it in a comment.           *)
(*  - An optional value (an unbound local, a missing cell, NaN) is a       *)
(*    sequence of length 0 or 1: None, Some(v).                            *)
(*  - A DataFrame is [cols, dtype, rows]: the ordered column labels, the   *)
(*    dtype of every column ("number" or "object") and the rows, each a    *)
(*    function from column label to cell.                                  *)
(*  - Quartiles are kept times 4 and outlier bounds times 8, so that the   *)
(*    linear interpolation and the factor 1.5 stay in the integers; the    *)
(*    values of the model are small integers, for which the binary         *)
(*    floating point arithmetic of the program is exact.                   *)
(***************************************************************************)
EXTENDS Integers, Sequences, FiniteSets, TLC

VARIABLES
    pc,              \* the statement of main() control is at
    err,             \* "none", or the exception that terminated the program
    disk,            \* the file found at the entered path (environment)
    fileName,        \* main: fileName
    reader,          \* which pandas reader main() called on the path
    msg,             \* the message the load block printed
    df,              \* main: df (None while the name is unbound)
    numOfRows,       \* main: numOfRows
    df_cleaned,      \* remove_outliers: df_cleaned
    colIdx,          \* remove_outliers: position of the for loop
    passes,          \* history: per numeric column, the rows before and after its filter
    df_final,        \* optional_operations: df_final
    df_before,       \* history: df_final when the current loop iteration began
    choice,          \* optional_operations: choice, as read in the last iteration
    fileChoiceInput, \* optional_operations: the format typed in the last iteration
    removeColumn,    \* optional_operations: removeColumn, as read in the last iteration
    menuMsg,         \* whether the last iteration printed "Invalid choice, try again."
    written,         \* the paths written by to_csv / to_excel, in order
    stats            \* main: stats

vars == <<pc, err, disk, fileName, reader, msg, df, numOfRows, df_cleaned, colIdx,
          passes, df_final, df_before, choice, fileChoiceInput, removeColumn,
          menuMsg, written, stats>>

-----------------------------------------------------------------------------
(* Bounds of the model *)

MaxRows == 4

-----------------------------------------------------------------------------
(* Optional values *)

None == <<>>
Some(v) == <<v>>
IsSome(c) == c # <<>>
Get(c) == c[1]

Range(s) == {s[i] : i \in 1..Len(s)}

-----------------------------------------------------------------------------
(* Python str operations.  A character is its Unicode code point; the tables  *)
(* are those of Unicode 14.0.0, the database of CPython 3.11.               *)

\* "A".."Z", "a".."z", "0".."9"
UpperCase == [i \in 1..26 |-> 64 + i]
LowerCase == [i \in 1..26 |-> 96 + i]
Digits == 48..57

\* the characters str.strip() removes and \s matches in a str pattern:
\* U+0009-000D, U+001C-0020, U+0085, U+00A0, U+1680, U+2000-200A, U+2028,
\* U+2029, U+202F, U+205F, U+3000
Whitespace ==
    (9..13) \cup (28..32) \cup {133, 160, 5760} \cup (8192..8202)
        \cup {8232, 8233, 8239, 8287, 12288}

\* whether code point c lies in the range <<first, last, step>> (further
\* components are not read)
InRange(c, r) == c >= r[1] /\ c <= r[2] /\ (c - r[1]) % r[3] = 0

\* the one-to-one lowercase mappings above U+007F: <<first, last, step, delta>>
\* maps every step-th code point from first to last to itself plus delta
LowerRanges ==
    { <<192, 214, 1, 32>>, <<216, 222, 1, 32>>, <<256, 302, 2, 1>>, <<306, 310, 2, 1>>,
      <<313, 327, 2, 1>>, <<330, 374, 2, 1>>, <<376, 376, 1, -121>>, <<377, 381, 2, 1>>,
      <<385, 385, 1, 210>>, <<386, 388, 2, 1>>, <<390, 390, 1, 206>>, <<391, 391, 1, 1>>,
      <<393, 394, 1, 205>>, <<395, 395, 1, 1>>, <<398, 398, 1, 79>>, <<399, 399, 1, 202>>,
      <<400, 400, 1, 203>>, <<401, 401, 1, 1>>, <<403, 403, 1, 205>>, <<404, 404, 1, 207>>,
      <<406, 406, 1, 211>>, <<407, 407, 1, 209>>, <<408, 408, 1, 1>>, <<412, 412, 1, 211>>,
      <<413, 413, 1, 213>>, <<415, 415, 1, 214>>, <<416, 420, 2, 1>>, <<422, 422, 1, 218>>,
      <<423, 423, 1, 1>>, <<425, 425, 1, 218>>, <<428, 428, 1, 1>>, <<430, 430, 1, 218>>,
      <<431, 431, 1, 1>>, <<433, 434, 1, 217>>, <<435, 437, 2, 1>>, <<439, 439, 1, 219>>,
      <<440, 440, 1, 1>>, <<444, 444, 1, 1>>, <<452, 452, 1, 2>>, <<453, 453, 1, 1>>,
      <<455, 455, 1, 2>>, <<456, 456, 1, 1>>, <<458, 458, 1, 2>>, <<459, 475, 2, 1>>,
      <<478, 494, 2, 1>>, <<497, 497, 1, 2>>, <<498, 500, 2, 1>>, <<502, 502, 1, -97>>,
      <<503, 503, 1, -56>>, <<504, 542, 2, 1>>, <<544, 544, 1, -130>>, <<546, 562, 2, 1>>,
      <<570, 570, 1, 10795>>, <<571, 571, 1, 1>>, <<573, 573, 1, -163>>,
      <<574, 574, 1, 10792>>, <<577, 577, 1, 1>>, <<579, 579, 1, -195>>,
      <<580, 580, 1, 69>>, <<581, 581, 1, 71>>, <<582, 590, 2, 1>>, <<880, 882, 2, 1>>,
      <<886, 886, 1, 1>>, <<895, 895, 1, 116>>, <<902, 902, 1, 38>>, <<904, 906, 1, 37>>,
      <<908, 908, 1, 64>>, <<910, 911, 1, 63>>, <<913, 929, 1, 32>>, <<932, 939, 1, 32>>,
      <<975, 975, 1, 8>>, <<984, 1006, 2, 1>>, <<1012, 1012, 1, -60>>,
      <<1015, 1015, 1, 1>>, <<1017, 1017, 1, -7>>, <<1018, 1018, 1, 1>>,
      <<1021, 1023, 1, -130>>, <<1024, 1039, 1, 80>>, <<1040, 1071, 1, 32>>,
      <<1120, 1152, 2, 1>>, <<1162, 1214, 2, 1>>, <<1216, 1216, 1, 15>>,
      <<1217, 1229, 2, 1>>, <<1232, 1326, 2, 1>>, <<1329, 1366, 1, 48>>,
      <<4256, 4293, 1, 7264>>, <<4295, 4295, 1, 7264>>, <<4301, 4301, 1, 7264>>,
      <<5024, 5103, 1, 38864>>, <<5104, 5109, 1, 8>>, <<7312, 7354, 1, -3008>>,
      <<7357, 7359, 1, -3008>>, <<7680, 7828, 2, 1>>, <<7838, 7838, 1, -7615>>,
      <<7840, 7934, 2, 1>>, <<7944, 7951, 1, -8>>, <<7960, 7965, 1, -8>>,
      <<7976, 7983, 1, -8>>, <<7992, 7999, 1, -8>>, <<8008, 8013, 1, -8>>,
      <<8025, 8031, 2, -8>>, <<8040, 8047, 1, -8>>, <<8072, 8079, 1, -8>>,
      <<8088, 8095, 1, -8>>, <<8104, 8111, 1, -8>>, <<8120, 8121, 1, -8>>,
      <<8122, 8123, 1, -74>>, <<8124, 8124, 1, -9>>, <<8136, 8139, 1, -86>>,
      <<8140, 8140, 1, -9>>, <<8152, 8153, 1, -8>>, <<8154, 8155, 1, -100>>,
      <<8168, 8169, 1, -8>>, <<8170, 8171, 1, -112>>, <<8172, 8172, 1, -7>>,
      <<8184, 8185, 1, -128>>, <<8186, 8187, 1, -126>>, <<8188, 8188, 1, -9>>,
      <<8486, 8486, 1, -7517>>, <<8490, 8490, 1, -8383>>, <<8491, 8491, 1, -8262>>,
      <<8498, 8498, 1, 28>>, <<8544, 8559, 1, 16>>, <<8579, 8579, 1, 1>>,
      <<9398, 9423, 1, 26>>, <<11264, 11311, 1, 48>>, <<11360, 11360, 1, 1>>,
      <<11362, 11362, 1, -10743>>, <<11363, 11363, 1, -3814>>, <<11364, 11364, 1, -10727>>,
      <<11367, 11371, 2, 1>>, <<11373, 11373, 1, -10780>>, <<11374, 11374, 1, -10749>>,
      <<11375, 11375, 1, -10783>>, <<11376, 11376, 1, -10782>>, <<11378, 11378, 1, 1>>,
      <<11381, 11381, 1, 1>>, <<11390, 11391, 1, -10815>>, <<11392, 11490, 2, 1>>,
      <<11499, 11501, 2, 1>>, <<11506, 11506, 1, 1>>, <<42560, 42604, 2, 1>>,
      <<42624, 42650, 2, 1>>, <<42786, 42798, 2, 1>>, <<42802, 42862, 2, 1>>,
      <<42873, 42875, 2, 1>>, <<42877, 42877, 1, -35332>>, <<42878, 42886, 2, 1>>,
      <<42891, 42891, 1, 1>>, <<42893, 42893, 1, -42280>>, <<42896, 42898, 2, 1>>,
      <<42902, 42920, 2, 1>>, <<42922, 42922, 1, -42308>>, <<42923, 42923, 1, -42319>>,
      <<42924, 42924, 1, -42315>>, <<42925, 42925, 1, -42305>>,
      <<42926, 42926, 1, -42308>>, <<42928, 42928, 1, -42258>>,
      <<42929, 42929, 1, -42282>>, <<42930, 42930, 1, -42261>>, <<42931, 42931, 1, 928>>,
      <<42932, 42946, 2, 1>>, <<42948, 42948, 1, -48>>, <<42949, 42949, 1, -42307>>,
      <<42950, 42950, 1, -35384>>, <<42951, 42953, 2, 1>>, <<42960, 42960, 1, 1>>,
      <<42966, 42968, 2, 1>>, <<42997, 42997, 1, 1>>, <<65313, 65338, 1, 32>>,
      <<66560, 66599, 1, 40>>, <<66736, 66771, 1, 40>>, <<66928, 66938, 1, 39>>,
      <<66940, 66954, 1, 39>>, <<66956, 66962, 1, 39>>, <<66964, 66965, 1, 39>>,
      <<68736, 68786, 1, 64>>, <<71840, 71871, 1, 32>>, <<93760, 93791, 1, 32>>,
      <<125184, 125217, 1, 34>> }

\* the characters the final-sigma rule of str.lower() skips (case-ignorable)
CaseIgnorableRanges ==
    { <<39, 39, 1>>, <<46, 46, 1>>, <<58, 58, 1>>, <<94, 94, 1>>, <<96, 96, 1>>,
      <<168, 168, 1>>, <<173, 173, 1>>, <<175, 175, 1>>, <<180, 180, 1>>, <<183, 184, 1>>,
      <<688, 879, 1>>, <<884, 885, 1>>, <<890, 890, 1>>, <<900, 901, 1>>, <<903, 903, 1>>,
      <<1155, 1161, 1>>, <<1369, 1369, 1>>, <<1375, 1375, 1>>, <<1425, 1469, 1>>,
      <<1471, 1471, 1>>, <<1473, 1474, 1>>, <<1476, 1477, 1>>, <<1479, 1479, 1>>,
      <<1524, 1524, 1>>, <<1536, 1541, 1>>, <<1552, 1562, 1>>, <<1564, 1564, 1>>,
      <<1600, 1600, 1>>, <<1611, 1631, 1>>, <<1648, 1648, 1>>, <<1750, 1757, 1>>,
      <<1759, 1768, 1>>, <<1770, 1773, 1>>, <<1807, 1807, 1>>, <<1809, 1809, 1>>,
      <<1840, 1866, 1>>, <<1958, 1968, 1>>, <<2027, 2037, 1>>, <<2042, 2042, 1>>,
      <<2045, 2045, 1>>, <<2070, 2093, 1>>, <<2137, 2139, 1>>, <<2184, 2184, 1>>,
      <<2192, 2193, 1>>, <<2200, 2207, 1>>, <<2249, 2306, 1>>, <<2362, 2362, 1>>,
      <<2364, 2364, 1>>, <<2369, 2376, 1>>, <<2381, 2381, 1>>, <<2385, 2391, 1>>,
      <<2402, 2403, 1>>, <<2417, 2417, 1>>, <<2433, 2433, 1>>, <<2492, 2492, 1>>,
      <<2497, 2500, 1>>, <<2509, 2509, 1>>, <<2530, 2531, 1>>, <<2558, 2558, 1>>,
      <<2561, 2562, 1>>, <<2620, 2620, 1>>, <<2625, 2626, 1>>, <<2631, 2632, 1>>,
      <<2635, 2637, 1>>, <<2641, 2641, 1>>, <<2672, 2673, 1>>, <<2677, 2677, 1>>,
      <<2689, 2690, 1>>, <<2748, 2748, 1>>, <<2753, 2757, 1>>, <<2759, 2760, 1>>,
      <<2765, 2765, 1>>, <<2786, 2787, 1>>, <<2810, 2815, 1>>, <<2817, 2817, 1>>,
      <<2876, 2876, 1>>, <<2879, 2879, 1>>, <<2881, 2884, 1>>, <<2893, 2893, 1>>,
      <<2901, 2902, 1>>, <<2914, 2915, 1>>, <<2946, 2946, 1>>, <<3008, 3008, 1>>,
      <<3021, 3021, 1>>, <<3072, 3072, 1>>, <<3076, 3076, 1>>, <<3132, 3132, 1>>,
      <<3134, 3136, 1>>, <<3142, 3144, 1>>, <<3146, 3149, 1>>, <<3157, 3158, 1>>,
      <<3170, 3171, 1>>, <<3201, 3201, 1>>, <<3260, 3260, 1>>, <<3263, 3263, 1>>,
      <<3270, 3270, 1>>, <<3276, 3277, 1>>, <<3298, 3299, 1>>, <<3328, 3329, 1>>,
      <<3387, 3388, 1>>, <<3393, 3396, 1>>, <<3405, 3405, 1>>, <<3426, 3427, 1>>,
      <<3457, 3457, 1>>, <<3530, 3530, 1>>, <<3538, 3540, 1>>, <<3542, 3542, 1>>,
      <<3633, 3633, 1>>, <<3636, 3642, 1>>, <<3654, 3662, 1>>, <<3761, 3761, 1>>,
      <<3764, 3772, 1>>, <<3782, 3782, 1>>, <<3784, 3789, 1>>, <<3864, 3865, 1>>,
      <<3893, 3893, 1>>, <<3895, 3895, 1>>, <<3897, 3897, 1>>, <<3953, 3966, 1>>,
      <<3968, 3972, 1>>, <<3974, 3975, 1>>, <<3981, 3991, 1>>, <<3993, 4028, 1>>,
      <<4038, 4038, 1>>, <<4141, 4144, 1>>, <<4146, 4151, 1>>, <<4153, 4154, 1>>,
      <<4157, 4158, 1>>, <<4184, 4185, 1>>, <<4190, 4192, 1>>, <<4209, 4212, 1>>,
      <<4226, 4226, 1>>, <<4229, 4230, 1>>, <<4237, 4237, 1>>, <<4253, 4253, 1>>,
      <<4348, 4348, 1>>, <<4957, 4959, 1>>, <<5906, 5908, 1>>, <<5938, 5939, 1>>,
      <<5970, 5971, 1>>, <<6002, 6003, 1>>, <<6068, 6069, 1>>, <<6071, 6077, 1>>,
      <<6086, 6086, 1>>, <<6089, 6099, 1>>, <<6103, 6103, 1>>, <<6109, 6109, 1>>,
      <<6155, 6159, 1>>, <<6211, 6211, 1>>, <<6277, 6278, 1>>, <<6313, 6313, 1>>,
      <<6432, 6434, 1>>, <<6439, 6440, 1>>, <<6450, 6450, 1>>, <<6457, 6459, 1>>,
      <<6679, 6680, 1>>, <<6683, 6683, 1>>, <<6742, 6742, 1>>, <<6744, 6750, 1>>,
      <<6752, 6752, 1>>, <<6754, 6754, 1>>, <<6757, 6764, 1>>, <<6771, 6780, 1>>,
      <<6783, 6783, 1>>, <<6823, 6823, 1>>, <<6832, 6862, 1>>, <<6912, 6915, 1>>,
      <<6964, 6964, 1>>, <<6966, 6970, 1>>, <<6972, 6972, 1>>, <<6978, 6978, 1>>,
      <<7019, 7027, 1>>, <<7040, 7041, 1>>, <<7074, 7077, 1>>, <<7080, 7081, 1>>,
      <<7083, 7085, 1>>, <<7142, 7142, 1>>, <<7144, 7145, 1>>, <<7149, 7149, 1>>,
      <<7151, 7153, 1>>, <<7212, 7219, 1>>, <<7222, 7223, 1>>, <<7288, 7293, 1>>,
      <<7376, 7378, 1>>, <<7380, 7392, 1>>, <<7394, 7400, 1>>, <<7405, 7405, 1>>,
      <<7412, 7412, 1>>, <<7416, 7417, 1>>, <<7468, 7530, 1>>, <<7544, 7544, 1>>,
      <<7579, 7679, 1>>, <<8125, 8125, 1>>, <<8127, 8129, 1>>, <<8141, 8143, 1>>,
      <<8157, 8159, 1>>, <<8173, 8175, 1>>, <<8189, 8190, 1>>, <<8203, 8207, 1>>,
      <<8216, 8217, 1>>, <<8228, 8228, 1>>, <<8231, 8231, 1>>, <<8234, 8238, 1>>,
      <<8288, 8292, 1>>, <<8294, 8303, 1>>, <<8305, 8305, 1>>, <<8319, 8319, 1>>,
      <<8336, 8348, 1>>, <<8400, 8432, 1>>, <<11388, 11389, 1>>, <<11503, 11505, 1>>,
      <<11631, 11631, 1>>, <<11647, 11647, 1>>, <<11744, 11775, 1>>, <<11823, 11823, 1>>,
      <<12293, 12293, 1>>, <<12330, 12333, 1>>, <<12337, 12341, 1>>, <<12347, 12347, 1>>,
      <<12441, 12446, 1>>, <<12540, 12542, 1>>, <<40981, 40981, 1>>, <<42232, 42237, 1>>,
      <<42508, 42508, 1>>, <<42607, 42610, 1>>, <<42612, 42621, 1>>, <<42623, 42623, 1>>,
      <<42652, 42655, 1>>, <<42736, 42737, 1>>, <<42752, 42785, 1>>, <<42864, 42864, 1>>,
      <<42888, 42890, 1>>, <<42994, 42996, 1>>, <<43000, 43001, 1>>, <<43010, 43010, 1>>,
      <<43014, 43014, 1>>, <<43019, 43019, 1>>, <<43045, 43046, 1>>, <<43052, 43052, 1>>,
      <<43204, 43205, 1>>, <<43232, 43249, 1>>, <<43263, 43263, 1>>, <<43302, 43309, 1>>,
      <<43335, 43345, 1>>, <<43392, 43394, 1>>, <<43443, 43443, 1>>, <<43446, 43449, 1>>,
      <<43452, 43453, 1>>, <<43471, 43471, 1>>, <<43493, 43494, 1>>, <<43561, 43566, 1>>,
      <<43569, 43570, 1>>, <<43573, 43574, 1>>, <<43587, 43587, 1>>, <<43596, 43596, 1>>,
      <<43632, 43632, 1>>, <<43644, 43644, 1>>, <<43696, 43696, 1>>, <<43698, 43700, 1>>,
      <<43703, 43704, 1>>, <<43710, 43711, 1>>, <<43713, 43713, 1>>, <<43741, 43741, 1>>,
      <<43756, 43757, 1>>, <<43763, 43764, 1>>, <<43766, 43766, 1>>, <<43867, 43871, 1>>,
      <<43881, 43883, 1>>, <<44005, 44005, 1>>, <<44008, 44008, 1>>, <<44013, 44013, 1>>,
      <<64286, 64286, 1>>, <<64434, 64450, 1>>, <<65024, 65039, 1>>, <<65043, 65043, 1>>,
      <<65056, 65071, 1>>, <<65106, 65106, 1>>, <<65109, 65109, 1>>, <<65279, 65279, 1>>,
      <<65287, 65287, 1>>, <<65294, 65294, 1>>, <<65306, 65306, 1>>, <<65342, 65342, 1>>,
      <<65344, 65344, 1>>, <<65392, 65392, 1>>, <<65438, 65439, 1>>, <<65507, 65507, 1>>,
      <<65529, 65531, 1>>, <<66045, 66045, 1>>, <<66272, 66272, 1>>, <<66422, 66426, 1>>,
      <<67456, 67461, 1>>, <<67463, 67504, 1>>, <<67506, 67514, 1>>, <<68097, 68099, 1>>,
      <<68101, 68102, 1>>, <<68108, 68111, 1>>, <<68152, 68154, 1>>, <<68159, 68159, 1>>,
      <<68325, 68326, 1>>, <<68900, 68903, 1>>, <<69291, 69292, 1>>, <<69446, 69456, 1>>,
      <<69506, 69509, 1>>, <<69633, 69633, 1>>, <<69688, 69702, 1>>, <<69744, 69744, 1>>,
      <<69747, 69748, 1>>, <<69759, 69761, 1>>, <<69811, 69814, 1>>, <<69817, 69818, 1>>,
      <<69821, 69821, 1>>, <<69826, 69826, 1>>, <<69837, 69837, 1>>, <<69888, 69890, 1>>,
      <<69927, 69931, 1>>, <<69933, 69940, 1>>, <<70003, 70003, 1>>, <<70016, 70017, 1>>,
      <<70070, 70078, 1>>, <<70089, 70092, 1>>, <<70095, 70095, 1>>, <<70191, 70193, 1>>,
      <<70196, 70196, 1>>, <<70198, 70199, 1>>, <<70206, 70206, 1>>, <<70367, 70367, 1>>,
      <<70371, 70378, 1>>, <<70400, 70401, 1>>, <<70459, 70460, 1>>, <<70464, 70464, 1>>,
      <<70502, 70508, 1>>, <<70512, 70516, 1>>, <<70712, 70719, 1>>, <<70722, 70724, 1>>,
      <<70726, 70726, 1>>, <<70750, 70750, 1>>, <<70835, 70840, 1>>, <<70842, 70842, 1>>,
      <<70847, 70848, 1>>, <<70850, 70851, 1>>, <<71090, 71093, 1>>, <<71100, 71101, 1>>,
      <<71103, 71104, 1>>, <<71132, 71133, 1>>, <<71219, 71226, 1>>, <<71229, 71229, 1>>,
      <<71231, 71232, 1>>, <<71339, 71339, 1>>, <<71341, 71341, 1>>, <<71344, 71349, 1>>,
      <<71351, 71351, 1>>, <<71453, 71455, 1>>, <<71458, 71461, 1>>, <<71463, 71467, 1>>,
      <<71727, 71735, 1>>, <<71737, 71738, 1>>, <<71995, 71996, 1>>, <<71998, 71998, 1>>,
      <<72003, 72003, 1>>, <<72148, 72151, 1>>, <<72154, 72155, 1>>, <<72160, 72160, 1>>,
      <<72193, 72202, 1>>, <<72243, 72248, 1>>, <<72251, 72254, 1>>, <<72263, 72263, 1>>,
      <<72273, 72278, 1>>, <<72281, 72283, 1>>, <<72330, 72342, 1>>, <<72344, 72345, 1>>,
      <<72752, 72758, 1>>, <<72760, 72765, 1>>, <<72767, 72767, 1>>, <<72850, 72871, 1>>,
      <<72874, 72880, 1>>, <<72882, 72883, 1>>, <<72885, 72886, 1>>, <<73009, 73014, 1>>,
      <<73018, 73018, 1>>, <<73020, 73021, 1>>, <<73023, 73029, 1>>, <<73031, 73031, 1>>,
      <<73104, 73105, 1>>, <<73109, 73109, 1>>, <<73111, 73111, 1>>, <<73459, 73460, 1>>,
      <<78896, 78904, 1>>, <<92912, 92916, 1>>, <<92976, 92982, 1>>, <<92992, 92995, 1>>,
      <<94031, 94031, 1>>, <<94095, 94111, 1>>, <<94176, 94177, 1>>, <<94179, 94180, 1>>,
      <<110576, 110579, 1>>, <<110581, 110587, 1>>, <<110589, 110590, 1>>,
      <<113821, 113822, 1>>, <<113824, 113827, 1>>, <<118528, 118573, 1>>,
      <<118576, 118598, 1>>, <<119143, 119145, 1>>, <<119155, 119170, 1>>,
      <<119173, 119179, 1>>, <<119210, 119213, 1>>, <<119362, 119364, 1>>,
      <<121344, 121398, 1>>, <<121403, 121452, 1>>, <<121461, 121461, 1>>,
      <<121476, 121476, 1>>, <<121499, 121503, 1>>, <<121505, 121519, 1>>,
      <<122880, 122886, 1>>, <<122888, 122904, 1>>, <<122907, 122913, 1>>,
      <<122915, 122916, 1>>, <<122918, 122922, 1>>, <<123184, 123197, 1>>,
      <<123566, 123566, 1>>, <<123628, 123631, 1>>, <<125136, 125142, 1>>,
      <<125252, 125259, 1>>, <<127995, 127999, 1>>, <<917505, 917505, 1>>,
      <<917536, 917631, 1>>, <<917760, 917999, 1>> }

\* the cased characters (letters with a case) that are not case-ignorable
CasedRanges ==
    { <<65, 90, 1>>, <<97, 122, 1>>, <<170, 170, 1>>, <<181, 181, 1>>, <<186, 186, 1>>,
      <<192, 214, 1>>, <<216, 246, 1>>, <<248, 442, 1>>, <<444, 447, 1>>, <<452, 659, 1>>,
      <<661, 687, 1>>, <<880, 883, 1>>, <<886, 887, 1>>, <<891, 893, 1>>, <<895, 895, 1>>,
      <<902, 902, 1>>, <<904, 906, 1>>, <<908, 908, 1>>, <<910, 929, 1>>, <<931, 1013, 1>>,
      <<1015, 1153, 1>>, <<1162, 1327, 1>>, <<1329, 1366, 1>>, <<1376, 1416, 1>>,
      <<4256, 4293, 1>>, <<4295, 4295, 1>>, <<4301, 4301, 1>>, <<4304, 4346, 1>>,
      <<4349, 4351, 1>>, <<5024, 5109, 1>>, <<5112, 5117, 1>>, <<7296, 7304, 1>>,
      <<7312, 7354, 1>>, <<7357, 7359, 1>>, <<7424, 7467, 1>>, <<7531, 7543, 1>>,
      <<7545, 7578, 1>>, <<7680, 7957, 1>>, <<7960, 7965, 1>>, <<7968, 8005, 1>>,
      <<8008, 8013, 1>>, <<8016, 8023, 1>>, <<8025, 8025, 1>>, <<8027, 8027, 1>>,
      <<8029, 8029, 1>>, <<8031, 8061, 1>>, <<8064, 8116, 1>>, <<8118, 8124, 1>>,
      <<8126, 8126, 1>>, <<8130, 8132, 1>>, <<8134, 8140, 1>>, <<8144, 8147, 1>>,
      <<8150, 8155, 1>>, <<8160, 8172, 1>>, <<8178, 8180, 1>>, <<8182, 8188, 1>>,
      <<8450, 8450, 1>>, <<8455, 8455, 1>>, <<8458, 8467, 1>>, <<8469, 8469, 1>>,
      <<8473, 8477, 1>>, <<8484, 8484, 1>>, <<8486, 8486, 1>>, <<8488, 8488, 1>>,
      <<8490, 8493, 1>>, <<8495, 8500, 1>>, <<8505, 8505, 1>>, <<8508, 8511, 1>>,
      <<8517, 8521, 1>>, <<8526, 8526, 1>>, <<8544, 8575, 1>>, <<8579, 8580, 1>>,
      <<9398, 9449, 1>>, <<11264, 11387, 1>>, <<11390, 11492, 1>>, <<11499, 11502, 1>>,
      <<11506, 11507, 1>>, <<11520, 11557, 1>>, <<11559, 11559, 1>>, <<11565, 11565, 1>>,
      <<42560, 42605, 1>>, <<42624, 42651, 1>>, <<42786, 42863, 1>>, <<42865, 42887, 1>>,
      <<42891, 42894, 1>>, <<42896, 42954, 1>>, <<42960, 42961, 1>>, <<42963, 42963, 1>>,
      <<42965, 42969, 1>>, <<42997, 42998, 1>>, <<43002, 43002, 1>>, <<43824, 43866, 1>>,
      <<43872, 43880, 1>>, <<43888, 43967, 1>>, <<64256, 64262, 1>>, <<64275, 64279, 1>>,
      <<65313, 65338, 1>>, <<65345, 65370, 1>>, <<66560, 66639, 1>>, <<66736, 66771, 1>>,
      <<66776, 66811, 1>>, <<66928, 66938, 1>>, <<66940, 66954, 1>>, <<66956, 66962, 1>>,
      <<66964, 66965, 1>>, <<66967, 66977, 1>>, <<66979, 66993, 1>>, <<66995, 67001, 1>>,
      <<67003, 67004, 1>>, <<68736, 68786, 1>>, <<68800, 68850, 1>>, <<71840, 71903, 1>>,
      <<93760, 93823, 1>>, <<119808, 119892, 1>>, <<119894, 119964, 1>>,
      <<119966, 119967, 1>>, <<119970, 119970, 1>>, <<119973, 119974, 1>>,
      <<119977, 119980, 1>>, <<119982, 119993, 1>>, <<119995, 119995, 1>>,
      <<119997, 120003, 1>>, <<120005, 120069, 1>>, <<120071, 120074, 1>>,
      <<120077, 120084, 1>>, <<120086, 120092, 1>>, <<120094, 120121, 1>>,
      <<120123, 120126, 1>>, <<120128, 120132, 1>>, <<120134, 120134, 1>>,
      <<120138, 120144, 1>>, <<120146, 120485, 1>>, <<120488, 120512, 1>>,
      <<120514, 120538, 1>>, <<120540, 120570, 1>>, <<120572, 120596, 1>>,
      <<120598, 120628, 1>>, <<120630, 120654, 1>>, <<120656, 120686, 1>>,
      <<120688, 120712, 1>>, <<120714, 120744, 1>>, <<120746, 120770, 1>>,
      <<120772, 120779, 1>>, <<122624, 122633, 1>>, <<122635, 122654, 1>>,
      <<125184, 125251, 1>>, <<127280, 127305, 1>>, <<127312, 127337, 1>>,
      <<127344, 127369, 1>> }

IsCaseIgnorable(c) == \E r \in CaseIgnorableRanges : InRange(c, r)
IsCased(c) == ~IsCaseIgnorable(c) /\ \E r \in CasedRanges : InRange(c, r)

\* the lowercase of one character out of context (str.lower() of the string
\* of that character alone): U+0130 becomes "i" followed by U+0307, the
\* capital sigma U+03A3 the small sigma U+03C3, every other character one
\* character by the table
char_lower(c) ==
    IF c \in 65..90 THEN <<c + 32>>
    ELSE IF c < 128 THEN <<c>>
    ELSE IF c = 304 THEN <<105, 775>>
    ELSE IF c = 931 THEN <<963>>
    ELSE IF \E r \in LowerRanges : InRange(c, r)
         THEN <<c + (CHOOSE r \in LowerRanges : InRange(c, r))[4]>>
         ELSE <<c>>

\* the final-sigma rule: the capital sigma at position i follows a cased
\* character and precedes none, case-ignorable characters being skipped
IsFinalSigma(s, i) ==
    /\ \E j \in 1..(i - 1) :
          /\ IsCased(s[j])
          /\ \A k \in (j + 1)..(i - 1) : IsCaseIgnorable(s[k])
    /\ ~\E j \in (i + 1)..Len(s) :
          /\ IsCased(s[j])
          /\ \A k \in (i + 1)..(j - 1) : IsCaseIgnorable(s[k])

\* str.lower()
str_lower(s) ==
    LET at(i) == IF s[i] = 931
                 THEN IF IsFinalSigma(s, i) THEN <<962>> ELSE <<963>>
                 ELSE char_lower(s[i])
        F[i \in 0..Len(s)] == IF i = 0 THEN <<>> ELSE F[i - 1] \o at(i)
    IN  F[Len(s)]

\* str.lstrip(), str.rstrip(), str.strip(): whitespace off both ends
RECURSIVE str_lstrip(_)
str_lstrip(s) ==
    IF s # <<>> /\ Head(s) \in Whitespace THEN str_lstrip(Tail(s)) ELSE s

RECURSIVE str_rstrip(_)
str_rstrip(s) ==
    IF s # <<>> /\ s[Len(s)] \in Whitespace
    THEN str_rstrip(SubSeq(s, 1, Len(s) - 1))
    ELSE s

str_strip(s) == str_rstrip(str_lstrip(s))

\* the characters the pattern [^a-zA-Z0-9\s] does not match
IsKeptChar(c) ==
    \/ c \in Range(LowerCase)
    \/ c \in Range(UpperCase)
    \/ c \in Digits
    \/ c \in Whitespace

\* str.replace('[^a-zA-Z0-9\s]', '', regex=True)
str_remove_special(s) == SelectSeq(s, IsKeptChar)

\* sub in s
Contains(sub, s) ==
    \E i \in 0..(Len(s) - Len(sub)) : SubSeq(s, i + 1, i + Len(sub)) = sub

\* clean_strings, applied to one value of the column
clean_strings(s) == str_remove_special(str_strip(str_lower(s)))

-----------------------------------------------------------------------------
(* DataFrame operations *)

IsNumeric(d, c) == d.dtype[c] = "number"
IsObject(d, c) == d.dtype[c] = "object"

NumericCols(d) == {c \in Range(d.cols) : IsNumeric(d, c)}

WithRows(d, rows) == [d EXCEPT !.rows = rows]

\* the present values of column c, in row order
ColumnValues(rows, c) == [i \in 1..Len(rows) |-> Get(rows[i][c])]

\* DataFrame.dropna(): the rows without a missing cell
HasNoMissing(d, r) == \A c \in Range(d.cols) : IsSome(r[c])
dropna(d) == WithRows(d, SelectSeq(d.rows, LAMBDA r : HasNoMissing(d, r)))

\* DataFrame.drop_duplicates(): the first occurrence of every row
drop_duplicates(d) ==
    LET keep == {i \in 1..Len(d.rows) : \A j \in 1..(i - 1) : d.rows[j] # d.rows[i]}
        F[i \in 0..Len(d.rows)] ==
            IF i = 0 THEN <<>>
            ELSE IF i \in keep THEN Append(F[i - 1], d.rows[i]) ELSE F[i - 1]
    IN  WithRows(d, F[Len(d.rows)])

\* the k-th smallest value (k counted from 0) of a non-empty sequence
Kth(vals, k) ==
    CHOOSE v \in Range(vals) :
        /\ Cardinality({i \in 1..Len(vals) : vals[i] < v}) <= k
        /\ k < Cardinality({i \in 1..Len(vals) : vals[i] <= v})

\* the position of the order statistic below the quantile num/4, and the
\* fraction (in quarters) of the way to the next one
QuantileLo(n, num) == (num * (n - 1)) \div 4
QuantileFrac(n, num) == (num * (n - 1)) % 4

\* a quantile without interpolation: the order statistic below
QuantileLower(vals, num) ==
    IF vals = <<>> THEN None
    ELSE Some(4 * Kth(vals, QuantileLo(Len(vals), num)))

\* Series.quantile(num/4), times 4: linear interpolation between the two
\* neighbouring order statistics; NaN (None) for an empty column
Quantile(vals, num) ==
    IF vals = <<>> THEN None
    ELSE LET n == Len(vals)
             lo == QuantileLo(n, num)
             fr == QuantileFrac(n, num)
             a == Kth(vals, lo)
             b == IF fr = 0 THEN a ELSE Kth(vals, lo + 1)
         IN  Some(4 * a + fr * (b - a))

\* Q1 - 1.5 * IQR and Q3 + 1.5 * IQR, times 8
LowerBound(vals) ==
    LET Q1 == Quantile(vals, 1)
        Q3 == Quantile(vals, 3)
    IN  IF IsSome(Q1) THEN Some(2 * Get(Q1) - 3 * (Get(Q3) - Get(Q1))) ELSE None

UpperBound(vals) ==
    LET Q1 == Quantile(vals, 1)
        Q3 == Quantile(vals, 3)
    IN  IF IsSome(Q1) THEN Some(2 * Get(Q3) + 3 * (Get(Q3) - Get(Q1))) ELSE None

\* a filter that keeps only the values strictly inside the bounds
InBoundsStrict(v, lower, upper) ==
    /\ IsSome(lower)
    /\ 8 * v > Get(lower)
    /\ 8 * v < Get(upper)

\* (value >= lower_bound) & (value <= upper_bound); False against NaN
InBounds(v, lower, upper) ==
    /\ IsSome(lower)
    /\ 8 * v >= Get(lower)
    /\ 8 * v <= Get(upper)

\* one pass of the loop of remove_outliers over a numeric column
FilterColumn(d, c) ==
    LET vals == ColumnValues(d.rows, c)
        lower == LowerBound(vals)
        upper == UpperBound(vals)
    IN  WithRows(d, SelectSeq(d.rows, LAMBDA r : InBounds(Get(r[c]), lower, upper)))

\* the loop over the object columns in main(): clean_strings on each
CleanRow(d, r) ==
    [c \in DOMAIN r |-> IF IsObject(d, c) THEN Some(clean_strings(Get(r[c]))) ELSE r[c]]
CleanStringColumns(d) ==
    WithRows(d, [i \in 1..Len(d.rows) |-> CleanRow(d, d.rows[i])])

-----------------------------------------------------------------------------
(* String constants of the program *)

DotCsv == <<46, 99, 115, 118>> (* ".csv" *)
DotXlsx == <<46, 120, 108, 115, 120>> (* ".xlsx" *)
FmtCsv == <<99, 115, 118>> (* "csv" *)
FmtExcel == <<101, 120, 99, 101, 108>> (* "excel" *)
CleanDir == <<68, 97, 116, 97, 45, 65, 110, 97, 108, 121, 122, 101, 114, 47, 67, 108, 101, 97, 110, 101, 100, 95, 68, 97, 116, 97, 115, 101, 116, 47>> (* "Data-Analyzer/Cleaned_Dataset/" *)
CleanCsvSuffix == <<95, 99, 108, 101, 97, 110, 46, 99, 115, 118>> (* "_clean.csv" *)
CleanXlsxSuffix == <<95, 99, 108, 101, 97, 110, 46, 120, 108, 115, 120>> (* "_clean.xlsx" *)

-----------------------------------------------------------------------------
(* Inputs: what the user types and what the path holds *)

FileNames ==
    { <<100, 46, 99, 115, 118>> (* "d.csv" *),
      <<100, 46, 120, 108, 115, 120>> (* "d.xlsx" *),
      <<100, 46, 99, 115, 118, 46, 116, 120, 116>> (* "d.csv.txt" *),
      <<110, 46, 120, 108, 115, 120, 46, 98, 97, 107>> (* "n.xlsx.bak" *),
      <<100, 46, 116, 120, 116>> (* "d.txt" *) }

SheetNames == {"Sheet1", "Nope"}
WorkbookSheet == "Sheet1"

\* the table of the end-to-end example: columns age, name
ExampleTable ==
    [cols |-> <<"age", "name">>,
     dtype |-> [age |-> "number", name |-> "object"],
     rows |-> << [age |-> Some(25), name |-> Some(<<32, 65, 108, 105, 99, 101, 33, 32>> (* " Alice! " *))],
                 [age |-> Some(200), name |-> Some(<<98, 111, 98>> (* "bob" *))],
                 [age |-> Some(30), name |-> Some(<<97, 108, 105, 99, 101>> (* "alice" *))] >>]

\* generated tables: columns age, score (numbers) and name (text)
GenCols == <<"age", "score", "name">>
GenDtype == [age |-> "number", score |-> "number", name |-> "object"]
GenRows ==
    { [age |-> Some(0), score |-> Some(0), name |-> Some(<<33, 32, 97>> (* "! a" *))],
      [age |-> Some(0), score |-> Some(9), name |-> Some(<<65, 32, 98>> (* "A b" *))],
      [age |-> Some(-8), score |-> Some(0), name |-> Some(<<97, 32, 33>> (* "a !" *))],
      [age |-> None, score |-> Some(1), name |-> Some(<<99>> (* "c" *))] }
GenTables ==
    { [cols |-> GenCols, dtype |-> GenDtype, rows |-> rows] :
        rows \in UNION {[1..n -> GenRows] : n \in 1..MaxRows} }

\* a file with a header line only: every column is read with dtype object
HeaderOnlyTable ==
    [cols |-> GenCols,
     dtype |-> [age |-> "object", score |-> "object", name |-> "object"],
     rows |-> <<>>]

CsvTables == GenTables \cup {ExampleTable, HeaderOnlyTable}
XlsxTables == {ExampleTable}

\* the file at the entered path: a CSV file, a workbook, no file, a file that
\* is not text in the expected encoding, or text that is not a table (data is
\* read only for the kinds "csv" and "xlsx"; the other kinds carry a filler)
DiskStates ==
    {[kind |-> "csv", data |-> t] : t \in CsvTables}
    \cup {[kind |-> "xlsx", data |-> t] : t \in XlsxTables}
    \cup {[kind |-> k, data |-> HeaderOnlyTable] : k \in {"absent", "undecodable", "malformed"}}

PlotTypes == {"scatter", "histogram", "boxplot"}
PlotInputs == PlotTypes \cup {"pie"}
ColumnInputs == {"age", "score", "name", "zzz"}
PlotColumnInputs == {"name", "zzz"}

-----------------------------------------------------------------------------
(* main(): the load block and the cleaning steps *)

Running == err = "none"

Init ==
    /\ pc = "input"
    /\ err = "none"
    /\ disk \in DiskStates
    /\ fileName = None
    /\ reader = "none"
    /\ msg = "none"
    /\ df = None
    /\ numOfRows = None
    /\ df_cleaned = None
    /\ colIdx = 0
    /\ passes = <<>>
    /\ df_final = None
    /\ df_before = None
    /\ choice = None
    /\ fileChoiceInput = None
    /\ removeColumn = None
    /\ menuMsg = FALSE
    /\ written = <<>>
    /\ stats = None

\* fileName = input(...)
InputFileName(f) ==
    /\ Running /\ pc = "input"
    /\ fileName' = Some(f)
    /\ pc' = "load"
    /\ UNCHANGED <<err, disk, reader, msg, df, numOfRows, df_cleaned, colIdx, passes,
                   df_final, df_before, choice, fileChoiceInput, removeColumn,
                   menuMsg, written, stats>>

\* the outcome of pd.read_csv(filePath)
ReadCsvOutcome ==
    CASE disk.kind = "csv" -> "ok"
      [] disk.kind = "absent" -> "FileNotFoundError"
      [] disk.kind \in {"undecodable", "xlsx"} -> "UnicodeDecodeError"
      [] OTHER -> "ParserError"

\* the outcome of pd.read_excel(filePath, sheet_name=sheet_name)
ReadExcelOutcome(sheet_name) ==
    IF disk.kind = "xlsx" /\ sheet_name = WorkbookSheet THEN "ok" ELSE "error"

\* if '.csv' in fileName
IsCsvName(f) == Contains(DotCsv, f)
\* elif '.xlsx' in fileName
IsXlsxName(f) == ~Contains(DotCsv, f) /\ Contains(DotXlsx, f)

\* the branch '.csv' in fileName: read_csv; FileNotFoundError and
\* UnicodeDecodeError are caught by the inner handler, everything else by the
\* outer one; control continues after the try statement in every case
LoadCsv ==
    /\ Running /\ pc = "load"
    /\ IsCsvName(Get(fileName))
    /\ reader' = "csv"
    /\ df' = IF ReadCsvOutcome = "ok" THEN Some(disk.data) ELSE df
    /\ msg' = CASE ReadCsvOutcome = "ok" -> "none"
                [] ReadCsvOutcome \in {"FileNotFoundError", "UnicodeDecodeError"} -> "read_error"
                [] OTHER -> "try_again"
    /\ pc' = "rowcount"
    /\ UNCHANGED <<err, disk, fileName, numOfRows, df_cleaned, colIdx, passes,
                   df_final, df_before, choice, fileChoiceInput, removeColumn,
                   menuMsg, written, stats>>

\* the branch '.xlsx' in fileName: ask for the sheet, read_excel; every
\* exception is caught; control continues after the try statement
LoadExcel(sheet_name) ==
    /\ Running /\ pc = "load"
    /\ IsXlsxName(Get(fileName))
    /\ reader' = "excel"
    /\ df' = IF ReadExcelOutcome(sheet_name) = "ok" THEN Some(disk.data) ELSE df
    /\ msg' = IF ReadExcelOutcome(sheet_name) = "ok" THEN "none" ELSE "read_error"
    /\ pc' = "rowcount"
    /\ UNCHANGED <<err, disk, fileName, numOfRows, df_cleaned, colIdx, passes,
                   df_final, df_before, choice, fileChoiceInput, removeColumn,
                   menuMsg, written, stats>>

\* the else branch: the format is reported as unsupported; control continues
LoadUnsupported ==
    /\ Running /\ pc = "load"
    /\ ~Contains(DotCsv, Get(fileName)) /\ ~Contains(DotXlsx, Get(fileName))
    /\ msg' = "unsupported"
    /\ pc' = "rowcount"
    /\ UNCHANGED <<err, disk, fileName, reader, df, numOfRows, df_cleaned, colIdx,
                   passes, df_final, df_before, choice, fileChoiceInput,
                   removeColumn, menuMsg, written, stats>>

\* numOfRows = df.shape[0]: UnboundLocalError when df was never assigned
RowCount ==
    /\ Running /\ pc = "rowcount"
    /\ IF IsSome(df)
       THEN /\ numOfRows' = Some(Len(Get(df).rows))
            /\ pc' = "dropna"
            /\ err' = err
       ELSE /\ err' = "UnboundLocalError"
            /\ UNCHANGED <<numOfRows, pc>>
    /\ UNCHANGED <<disk, fileName, reader, msg, df, df_cleaned, colIdx, passes,
                   df_final, df_before, choice, fileChoiceInput, removeColumn,
                   menuMsg, written, stats>>

\* df = df.dropna()
DropNa ==
    /\ Running /\ pc = "dropna"
    /\ df' = Some(dropna(Get(df)))
    /\ pc' = "outliers"
    /\ UNCHANGED <<err, disk, fileName, reader, msg, numOfRows, df_cleaned, colIdx,
                   passes, df_final, df_before, choice, fileChoiceInput,
                   removeColumn, menuMsg, written, stats>>

\* remove_outliers(df): df_cleaned = df.copy()
RemoveOutliersEnter ==
    /\ Running /\ pc = "outliers" /\ colIdx = 0
    /\ df_cleaned' = df
    /\ colIdx' = 1
    /\ UNCHANGED <<pc, err, disk, fileName, reader, msg, df, numOfRows, passes,
                   df_final, df_before, choice, fileChoiceInput, removeColumn,
                   menuMsg, written, stats>>

\* one iteration of the for loop of remove_outliers
RemoveOutliersPass ==
    /\ Running /\ pc = "outliers" /\ colIdx >= 1
    /\ colIdx <= Len(Get(df_cleaned).cols)
    /\ LET d == Get(df_cleaned)
           c == d.cols[colIdx]
       IN  IF IsNumeric(d, c)
           THEN /\ df_cleaned' = Some(FilterColumn(d, c))
                /\ passes' = Append(passes, [column |-> c,
                                             start |-> d.rows,
                                             kept |-> FilterColumn(d, c).rows])
           ELSE UNCHANGED <<df_cleaned, passes>>
    /\ colIdx' = colIdx + 1
    /\ UNCHANGED <<pc, err, disk, fileName, reader, msg, df, numOfRows,
                   df_final, df_before, choice, fileChoiceInput, removeColumn,
                   menuMsg, written, stats>>

\* return df_cleaned, assigned to df in main()
RemoveOutliersReturn ==
    /\ Running /\ pc = "outliers" /\ colIdx >= 1
    /\ colIdx > Len(Get(df_cleaned).cols)
    /\ df' = df_cleaned
    /\ df_cleaned' = None
    /\ colIdx' = 0
    /\ pc' = "dedup"
    /\ UNCHANGED <<err, disk, fileName, reader, msg, numOfRows, passes,
                   df_final, df_before, choice, fileChoiceInput, removeColumn,
                   menuMsg, written, stats>>

\* df = df.drop_duplicates()
DropDuplicates ==
    /\ Running /\ pc = "dedup"
    /\ df' = Some(drop_duplicates(Get(df)))
    /\ pc' = "strings"
    /\ UNCHANGED <<err, disk, fileName, reader, msg, numOfRows, df_cleaned, colIdx,
                   passes, df_final, df_before, choice, fileChoiceInput,
                   removeColumn, menuMsg, written, stats>>

\* for column in df.columns: if dtype == 'object': df[column] = clean_strings(...)
CleanStrings ==
    /\ Running /\ pc = "strings"
    /\ df' = Some(CleanStringColumns(Get(df)))
    /\ pc' = "optional"
    /\ UNCHANGED <<err, disk, fileName, reader, msg, numOfRows, df_cleaned, colIdx,
                   passes, df_final, df_before, choice, fileChoiceInput,
                   removeColumn, menuMsg, written, stats>>

-----------------------------------------------------------------------------
(* optional_operations(df, file) *)

FormatInputs == { <<99, 115, 118>> (* "csv" *), <<69, 120, 99, 101, 108>> (* "Excel" *), <<112, 100, 102>> (* "pdf" *) }
OtherChoices == {-1, 3}

\* 'Data-Analyzer/Cleaned_Dataset/{}_clean.csv'.format(file), and the .xlsx one
CleanPath(file, suffix) == CleanDir \o file \o suffix

\* a match statement whose default case exports CSV
ExportSuffixDefaultCsv(fc) ==
    IF fc = FmtExcel THEN Some(CleanXlsxSuffix) ELSE Some(CleanCsvSuffix)

\* match fileChoice: case 'csv', case 'excel', case _ (None: no export)
ExportSuffix(fc) ==
    IF fc = FmtCsv THEN Some(CleanCsvSuffix)
    ELSE IF fc = FmtExcel THEN Some(CleanXlsxSuffix)
    ELSE None

\* a replacement with the comparison turned around
ZeroValueInverted(x) == IF x > 0 THEN 0 ELSE x

\* lambda x: 0 if x < 0 else x
ZeroValue(x) == IF x < 0 THEN 0 ELSE x

\* case 1: the lambda applied to every numeric column
ZeroNegatives(d) ==
    WithRows(d, [i \in 1..Len(d.rows) |->
                    [c \in DOMAIN d.rows[i] |->
                        IF IsNumeric(d, c)
                        THEN Some(ZeroValue(Get(d.rows[i][c])))
                        ELSE d.rows[i][c]]])

\* the table without the columns in gone
WithoutColumns(d, gone) ==
    [cols |-> SelectSeq(d.cols, LAMBDA c : c \notin gone),
     dtype |-> [c \in (DOMAIN d.dtype) \ gone |-> d.dtype[c]],
     rows |-> [i \in 1..Len(d.rows) |->
                 [c \in (DOMAIN d.rows[i]) \ gone |-> d.rows[i][c]]]]

\* a drop that removes the first column, whatever the label asked for
drop_first(d, label) == WithoutColumns(d, {d.cols[1]})

\* DataFrame.drop(label, axis=1), for a label that is a column
drop(d, label) == WithoutColumns(d, {label})

\* def optional_operations(df, file): df_final = df.copy()
OptionalOperationsEnter ==
    /\ Running /\ pc = "optional"
    /\ df_final' = df
    /\ pc' = "menu"
    /\ UNCHANGED <<err, disk, fileName, reader, msg, df, numOfRows, df_cleaned, colIdx,
                   passes, df_before, choice, fileChoiceInput, removeColumn,
                   menuMsg, written, stats>>

\* choice = int(input(...)) on a line that is not an integer: ValueError
MenuNotAnInteger ==
    /\ Running /\ pc = "menu"
    /\ err' = "ValueError"
    /\ UNCHANGED <<pc, disk, fileName, reader, msg, df, numOfRows, df_cleaned, colIdx,
                   passes, df_final, df_before, choice, fileChoiceInput,
                   removeColumn, menuMsg, written, stats>>

\* case 0: ask for the format, lowercase it; 'csv' and 'excel' write the file
\* and return df_final (assigned to df in main); anything else is reported
\* and the loop goes on.  The output directory is taken to exist.
MenuFinish(fmt) ==
    /\ Running /\ pc = "menu"
    /\ df_before' = df_final
    /\ choice' = Some(0)
    /\ fileChoiceInput' = Some(fmt)
    /\ removeColumn' = None
    /\ LET suffix == ExportSuffix(str_lower(fmt))
       IN  IF IsSome(suffix)
           THEN /\ written' = Append(written, CleanPath(Get(fileName), Get(suffix)))
                /\ df' = df_final
                /\ pc' = "stats"
                /\ menuMsg' = FALSE
           ELSE /\ menuMsg' = TRUE
                /\ UNCHANGED <<written, df, pc>>
    /\ UNCHANGED <<err, disk, fileName, reader, msg, numOfRows, df_cleaned, colIdx,
                   passes, df_final, stats>>

\* case 1: negative values of the numeric columns become 0
MenuZeroNegatives ==
    /\ Running /\ pc = "menu"
    /\ df_before' = df_final
    /\ choice' = Some(1)
    /\ fileChoiceInput' = None
    /\ removeColumn' = None
    /\ menuMsg' = FALSE
    /\ df_final' = Some(ZeroNegatives(Get(df_final)))
    /\ UNCHANGED <<pc, err, disk, fileName, reader, msg, df, numOfRows, df_cleaned,
                   colIdx, passes, written, stats>>

\* case 2: drop the named column; the KeyError of an absent label is caught
\* by the bare except and reported
MenuDropColumn(label) ==
    /\ Running /\ pc = "menu"
    /\ df_before' = df_final
    /\ choice' = Some(2)
    /\ fileChoiceInput' = None
    /\ removeColumn' = Some(label)
    /\ IF label \in Range(Get(df_final).cols)
       THEN /\ df_final' = Some(drop(Get(df_final), label))
            /\ menuMsg' = FALSE
       ELSE /\ menuMsg' = TRUE
            /\ UNCHANGED df_final
    /\ UNCHANGED <<pc, err, disk, fileName, reader, msg, df, numOfRows, df_cleaned,
                   colIdx, passes, written, stats>>

\* case _: any other integer is reported
MenuOther(n) ==
    /\ Running /\ pc = "menu"
    /\ df_before' = df_final
    /\ choice' = Some(n)
    /\ fileChoiceInput' = None
    /\ removeColumn' = None
    /\ menuMsg' = TRUE
    /\ UNCHANGED <<pc, err, disk, fileName, reader, msg, df, numOfRows, df_cleaned,
                   colIdx, passes, df_final, written, stats>>

-----------------------------------------------------------------------------
(* calculate_stats(df) and visualize(df, x_column, y_column, plot_type) *)

Sum(vals) ==
    LET F[i \in 0..Len(vals)] == IF i = 0 THEN 0 ELSE F[i - 1] + vals[i]
    IN  F[Len(vals)]

SumOfSquares(vals) ==
    LET F[i \in 0..Len(vals)] == IF i = 0 THEN 0 ELSE F[i - 1] + vals[i] * vals[i]
    IN  F[Len(vals)]

\* a rational number num/den (den > 0) in lowest terms, as <<num, den>>
RECURSIVE Gcd(_, _)
Gcd(a, b) == IF b = 0 THEN a ELSE Gcd(b, a % b)
Abs(x) == IF x < 0 THEN -x ELSE x
Rational(num, den) ==
    LET g == Gcd(Abs(num), den) IN <<num \div g, den \div g>>

\* one column of DataFrame.describe(): count, mean, std, min, 25%, 50%, 75%,
\* max.  mean is the rational sum/count; std, the sample standard deviation,
\* is the square root of the rational (n*sum(x^2) - sum(x)^2) / (n*(n-1)),
\* kept as [sqrt |-> that rational]; the quartiles are kept times 4; a
\* statistic that is NaN (empty column, std of one value) is None
DescribeColumn(vals) ==
    LET n == Len(vals)
    IN  [count |-> n,
         mean |-> IF n = 0 THEN None ELSE Some(Rational(Sum(vals), n)),
         std |-> IF n <= 1 THEN None
                 ELSE Some([sqrt |-> Rational(n * SumOfSquares(vals) - Sum(vals) * Sum(vals),
                                              n * (n - 1))]),
         min |-> IF n = 0 THEN None ELSE Some(Kth(vals, 0)),
         q25 |-> Quantile(vals, 1),
         q50 |-> Quantile(vals, 2),
         q75 |-> Quantile(vals, 3),
         max |-> IF n = 0 THEN None ELSE Some(Kth(vals, n - 1))]

\* df.select_dtypes(include=['number']).describe(); describe() raises
\* ValueError on a frame without columns (None)
calculate_stats(d) ==
    IF NumericCols(d) = {} THEN None
    ELSE Some([c \in NumericCols(d) |-> DescribeColumn(ColumnValues(d.rows, c))])

\* stats = calculate_stats(df)
CalculateStats ==
    /\ Running /\ pc = "stats"
    /\ IF IsSome(calculate_stats(Get(df)))
       THEN /\ stats' = calculate_stats(Get(df))
            /\ pc' = "visualize"
            /\ err' = err
       ELSE /\ err' = "ValueError"
            /\ UNCHANGED <<stats, pc>>
    /\ UNCHANGED <<disk, fileName, reader, msg, df, numOfRows, df_cleaned, colIdx,
                   passes, df_final, df_before, choice, fileChoiceInput,
                   removeColumn, menuMsg, written>>

\* the three inputs and visualize(): an unknown plot type is reported, an
\* unknown column raises inside the plotting call
Visualize(plot_type, x_column, y_column) ==
    /\ Running /\ pc = "visualize"
    /\ IF plot_type \in PlotTypes /\ ~({x_column, y_column} \subseteq Range(Get(df).cols))
       THEN /\ err' = "ValueError"
            /\ pc' = pc
       ELSE /\ pc' = "done"
            /\ err' = err
    /\ UNCHANGED <<disk, fileName, reader, msg, df, numOfRows, df_cleaned, colIdx,
                   passes, df_final, df_before, choice, fileChoiceInput,
                   removeColumn, menuMsg, written, stats>>

-----------------------------------------------------------------------------

Next ==
    \/ \E f \in FileNames : InputFileName(f)
    \/ LoadCsv
    \/ \E s \in SheetNames : LoadExcel(s)
    \/ LoadUnsupported
    \/ RowCount
    \/ DropNa
    \/ RemoveOutliersEnter
    \/ RemoveOutliersPass
    \/ RemoveOutliersReturn
    \/ DropDuplicates
    \/ CleanStrings
    \/ OptionalOperationsEnter
    \/ MenuNotAnInteger
    \/ \E fmt \in FormatInputs : MenuFinish(fmt)
    \/ MenuZeroNegatives
    \/ \E label \in ColumnInputs : MenuDropColumn(label)
    \/ \E n \in OtherChoices : MenuOther(n)
    \/ CalculateStats
    \/ \E p \in PlotInputs, x \in PlotColumnInputs, y \in PlotColumnInputs : Visualize(p, x, y)

Spec == Init /\ [][Next]_vars

-----------------------------------------------------------------------------
(* Vocabulary of the properties *)

\* the stages of main() after the load block
LaterStages == {"rowcount", "dropna", "outliers", "dedup", "strings", "optional",
                "menu", "stats", "visualize", "done"}
\* the stages after optional_operations has returned
AfterMenu == {"stats", "visualize", "done"}

LoadFailed == msg # "none"

\* the position of the last "." of a name (0: none), its extension and its base
LastDot(f) ==
    IF \E i \in 1..Len(f) : f[i] = 46
    THEN CHOOSE i \in 1..Len(f) : f[i] = 46 /\ \A j \in (i + 1)..Len(f) : f[j] # 46
    ELSE 0
Extension(f) == IF LastDot(f) = 0 THEN <<>> ELSE SubSeq(f, LastDot(f), Len(f))
BaseName(f) == IF LastDot(f) = 0 THEN f ELSE SubSeq(f, 1, LastDot(f) - 1)

\* equality of two strings up to the case of their letters
EqualIgnoringCase(a, b) ==
    /\ Len(a) = Len(b)
    /\ \A i \in 1..Len(a) : char_lower(a[i]) = char_lower(b[i])
IsExportFormat(fmt) ==
    EqualIgnoringCase(fmt, FmtCsv) \/ EqualIgnoringCase(fmt, FmtExcel)

\* the quartile num/4 (times 4) of a non-empty column by the textbook rule:
\* sort, take the position num*(n-1)/4, interpolate linearly
SortedValues(vals) == SortSeq(vals, LAMBDA a, b : a < b)
InterpolatedQuartile(vals, num) ==
    LET s == SortedValues(vals)
        h == num * (Len(vals) - 1)
        lo == (h \div 4) + 1
        hi == IF h % 4 = 0 THEN lo ELSE lo + 1
    IN  4 * s[lo] + (h % 4) * (s[hi] - s[lo])
\* Q1 - 1.5*IQR <= v <= Q3 + 1.5*IQR, all times 8
WithinIqrBounds(v, vals) ==
    LET Q1 == InterpolatedQuartile(vals, 1)
        Q3 == InterpolatedQuartile(vals, 3)
    IN  /\ 2 * Q1 - 3 * (Q3 - Q1) <= 8 * v
        /\ 8 * v <= 2 * Q3 + 3 * (Q3 - Q1)

\* the frame remove_outliers is working on, or has just returned
OutlierFrame == IF pc = "outliers" /\ colIdx >= 1 THEN df_cleaned ELSE df

-----------------------------------------------------------------------------
(* C1 *)

\* C1: after a failed load (unsupported name, unreadable CSV, unreadable
\* workbook or sheet) main halts: no later stage is entered and no stage
\* operates on a Dataset that was never assigned.
C1_LoadFailureHalts ==
    LoadFailed => (pc \notin LaterStages /\ err # "UnboundLocalError")

-----------------------------------------------------------------------------
(* C2 *)

ExampleCleaned == IsSome(df) /\ disk.data = ExampleTable /\ pc = "optional"

\* C2 (as stated): on the example table the Cleaner removes the row with age
\* 200 as an outlier and leaves exactly 2 rows.
C2_ExampleLeavesTwoRows ==
    ExampleCleaned =>
        /\ Len(Get(df).rows) = 2
        /\ \A i \in 1..Len(Get(df).rows) : Get(df).rows[i].age # Some(200)

\* C2 (amended): on the example table the Cleaner removes no row, the row
\* with age 200 included (Q1 = 27.5, Q3 = 115, bounds [-103.75, 246.25]),
\* and leaves exactly the 3 rows (25, "alice"), (200, "bob"), (30, "alice").
C2_ExampleKeepsThreeRows ==
    ExampleCleaned =>
        /\ Get(df).rows =
              << [age |-> Some(25), name |-> Some(<<97, 108, 105, 99, 101>> (* "alice" *))],
                 [age |-> Some(200), name |-> Some(<<98, 111, 98>> (* "bob" *))],
                 [age |-> Some(30), name |-> Some(<<97, 108, 105, 99, 101>> (* "alice" *))] >>
        /\ Len(passes) = 1
        /\ passes[1].kept = passes[1].start

C2_Witness ==
    /\ ExampleCleaned
    /\ numOfRows = Some(3)
    /\ Len(Get(df).rows) = 3

-----------------------------------------------------------------------------
(* C3 *)

\* C3: clean_strings is idempotent: every text value the Cleaner has
\* produced is left as it is by a second application of clean_strings.
C3_CleanStringsIdempotent ==
    (pc = "optional") =>
        \A i \in 1..Len(Get(df).rows) :
            \A c \in Range(Get(df).cols) :
                IsObject(Get(df), c) =>
                    clean_strings(Get(Get(df).rows[i][c])) = Get(Get(df).rows[i][c])

-----------------------------------------------------------------------------
(* C4 *)

\* C4: for every numeric column c, the pass of c keeps exactly the rows whose
\* value lies in [Q1 - 1.5*IQR, Q3 + 1.5*IQR] (both ends included), the
\* quartiles being the linearly interpolated ones of c over the rows present
\* when the pass started; and every value of c that remains, during the later
\* passes and in the result of remove_outliers, lies within those bounds.
C4_RemainingValuesWithinBounds ==
    \A k \in 1..Len(passes) :
        LET p == passes[k]
            vals == ColumnValues(p.start, p.column)
        IN  /\ p.kept = SelectSeq(p.start,
                           LAMBDA r : WithinIqrBounds(Get(r[p.column]), vals))
            /\ (pc \in {"outliers", "dedup"}) =>
                   \A i \in 1..Len(Get(OutlierFrame).rows) :
                       WithinIqrBounds(Get(Get(OutlierFrame).rows[i][p.column]), vals)

\* a result in which a later column's pass has removed a row after the pass
\* of an earlier column, and a value equal to a bound has been kept
C4_Witness ==
    /\ pc = "dedup"
    /\ Len(passes) = 2
    /\ Len(passes[2].kept) < Len(passes[2].start)
    /\ Len(Get(df).rows) > 0
    /\ \E i \in 1..Len(Get(df).rows) :
          LET vals == ColumnValues(passes[1].start, passes[1].column)
          IN  8 * Get(Get(df).rows[i][passes[1].column]) =
                  2 * InterpolatedQuartile(vals, 3)
                  + 3 * (InterpolatedQuartile(vals, 3) - InterpolatedQuartile(vals, 1))

-----------------------------------------------------------------------------
(* C5 *)

\* C5: after menu choice 1 every value of every numeric column is >= 0, the
\* values that were >= 0 are unchanged, the other columns are unchanged, the
\* columns and the number of rows are unchanged, nothing is exported and the
\* loop goes on.
C5_ZeroNegatives ==
    (choice = Some(1)) =>
        LET b == Get(df_before)
            a == Get(df_final)
        IN  /\ pc = "menu"
            /\ written = <<>>
            /\ a.cols = b.cols
            /\ a.dtype = b.dtype
            /\ Len(a.rows) = Len(b.rows)
            /\ \A i \in 1..Len(a.rows) :
                  /\ DOMAIN a.rows[i] = DOMAIN b.rows[i]
                  /\ \A c \in Range(a.cols) :
                        IF IsNumeric(a, c)
                        THEN /\ Get(a.rows[i][c]) >= 0
                             /\ Get(b.rows[i][c]) >= 0 => a.rows[i][c] = b.rows[i][c]
                        ELSE a.rows[i][c] = b.rows[i][c]

\* choice 1 on a frame holding a negative and a positive number
C5_Witness ==
    /\ choice = Some(1)
    /\ \E i \in 1..Len(Get(df_before).rows) :
          \E c \in NumericCols(Get(df_before)) :
              /\ Get(Get(df_before).rows[i][c]) < 0
              /\ Get(Get(df_final).rows[i][c]) = 0
    /\ \E i \in 1..Len(Get(df_before).rows) :
          \E c \in NumericCols(Get(df_before)) : Get(Get(df_before).rows[i][c]) > 0

-----------------------------------------------------------------------------
(* C6 *)

\* C6: after menu choice 2, when the entered name is a column exactly that
\* column is gone and the number of rows and every other column's values are
\* unchanged; when it is not, the frame is unchanged and an error is
\* reported; the loop goes on in both cases.
C6_DropColumn ==
    (choice = Some(2)) =>
        LET b == Get(df_before)
            a == Get(df_final)
            label == Get(removeColumn)
        IN  /\ pc = "menu"
            /\ IF label \in Range(b.cols)
               THEN /\ a.cols = SelectSeq(b.cols, LAMBDA c : c # label)
                    /\ Len(a.rows) = Len(b.rows)
                    /\ \A c \in Range(a.cols) : a.dtype[c] = b.dtype[c]
                    /\ \A i \in 1..Len(a.rows) :
                          /\ DOMAIN a.rows[i] = Range(b.cols) \ {label}
                          /\ \A c \in Range(a.cols) : a.rows[i][c] = b.rows[i][c]
                    /\ ~menuMsg
               ELSE /\ a = b
                    /\ menuMsg

\* an absent name asked for after another column was dropped from a frame
\* with rows
C6_Witness ==
    /\ choice = Some(2)
    /\ Get(removeColumn) \notin Range(Get(df_before).cols)
    /\ Len(Get(df_final).cols) < Len(Get(df).cols)
    /\ Len(Get(df_final).rows) > 0
    /\ menuMsg

-----------------------------------------------------------------------------
(* C7 *)

\* C7: optional_operations has returned only if the last iteration read
\* choice 0 and a format equal, up to case, to 'csv' or 'excel', and then
\* exactly one file has been written, in that iteration; until then no file
\* is written; choice 1, choice 2 and any other integer leave the loop
\* running; any other integer and choice 0 with another format leave the
\* working frame as it was.
C7_OnlyFinishReturns ==
    /\ (pc \in AfterMenu) =>
          /\ choice = Some(0)
          /\ IsExportFormat(Get(fileChoiceInput))
          /\ Len(written) = 1
    /\ (pc \notin AfterMenu) => written = <<>>
    /\ (IsSome(choice) /\ choice # Some(0)) => pc = "menu"
    /\ (choice = Some(0) /\ pc = "menu") =>
          /\ ~IsExportFormat(Get(fileChoiceInput))
          /\ df_final = df_before
    /\ (IsSome(choice) /\ choice \notin {Some(0), Some(1), Some(2)}) =>
          df_final = df_before

\* a return on the format typed as "Excel", after an earlier iteration
\* changed the frame
C7_Witness ==
    /\ pc = "stats"
    /\ fileChoiceInput = Some(<<69, 120, 99, 101, 108>> (* "Excel" *))
    /\ Len(written) = 1
    /\ Len(Get(df).cols) < Len(disk.data.cols)

-----------------------------------------------------------------------------
(* C8 *)

\* C8: when the final Dataset has no numeric column, calculate_stats yields
\* an empty result and the program is not terminated by an error.
C8_NoNumericColumnsHandled ==
    (pc = "stats" /\ NumericCols(Get(df)) = {}) => err = "none"

-----------------------------------------------------------------------------
(* C9 *)

\* C9: for an input named <base>.csv or <base>.xlsx the file written on
\* Finish is <base>_clean.csv (format csv) or <base>_clean.xlsx (format
\* excel) in the output directory.
C9_ExportPathFromBaseName ==
    (written # <<>> /\ Extension(Get(fileName)) \in {DotCsv, DotXlsx}) =>
        written[1] =
            CleanDir \o BaseName(Get(fileName))
                \o (IF EqualIgnoringCase(Get(fileChoiceInput), FmtCsv)
                    THEN CleanCsvSuffix ELSE CleanXlsxSuffix)

-----------------------------------------------------------------------------
(* C10 *)

\* C10: a name is read as CSV only when its extension is .csv, as Excel only
\* when its extension is .xlsx, and a name with any other extension is
\* rejected as unsupported without a file being read.
C10_FormatByExtension ==
    (pc \in LaterStages) =>
        /\ (reader = "csv") => Extension(Get(fileName)) = DotCsv
        /\ (reader = "excel") => Extension(Get(fileName)) = DotXlsx
        /\ (Extension(Get(fileName)) \notin {DotCsv, DotXlsx}) =>
              (reader = "none" /\ msg = "unsupported")

====
